---------------------------- MODULE Spec2Model ----------------------------
(***************************************************************************)
(* Model of the hardware watchpoint manager of Rosalina's GDB stub         *)
(* (sysmodules/rosalina/source/gdb/watchpoints.c).                         *)
(*                                                                         *)
(* u32 values are written as their two's-complement residue in             *)
(* -2^31 .. 2^31-1: 0xFFFFFFFF is -1, 0xFFFFFFFE is -2, and so on.  With   *)
(* that encoding u32 ++ and -- are +1 and -1 (no counter of the model      *)
(* comes near 2^31), and the unsigned comparison is UGt below.             *)
(***************************************************************************)
EXTENDS Integers, Sequences, FiniteSets, TLC

(* ------------------------------ bounds --------------------------------- *)

\* Largest acquisition count of the recursive lock the model follows.
MaxLock == 1
\* Number of calls made in a behaviour.
MaxCalls == 6
\* How far below zero (as u32: how far below 2^32) a counter is followed.
MaxUnder == 1

(* -------------------------- program constants -------------------------- *)

\* WatchpointKind: Disabled is the zero a memset leaves; the others are the
\* values of the load/store field of the WCR, (u32)kind << 3.
WATCHPOINT_DISABLED == 0
WATCHPOINT_READ == 1
WATCHPOINT_WRITE == 2

EBUSY == 16
EINVAL == 22

\* Number of logical slots: WatchpointManager.watchpoints[2].
NbSlots == 2
\* First context-ID capable breakpoint register pair (BRP4), and the flag
\* that selects a watchpoint register pair (0x100).
BRP_BASE == 4
WRP_FLAG == 256

(* ------------------------------ inputs --------------------------------- *)

\* The debug handles (context IDs) of the sessions; a handle is never 0.
Contexts == {1, 2, 3}
\* The sessions that make calls.
Callers == {1, 2}
\* Requested addresses: 0, a word-aligned one, and one at offset 3.
Addresses == {0, 4, 7}
\* Requested sizes: 0, the smallest and the largest legal one (4 is too
\* large at offset 3).
Sizes == {0, 1, 4}
\* Requested kinds.
Kinds == {WATCHPOINT_DISABLED, WATCHPOINT_READ, WATCHPOINT_WRITE}
\* What the two register writes of an add do: both succeed, the first fails
\* (the second is then not made), or the second fails.
HwOutcomes == {"ok", "wrpFails", "brpFails"}

Slots == 0 .. (NbSlots - 1)
RegIds == {BRP_BASE, BRP_BASE + 1, WRP_FLAG, WRP_FLAG + 1}

(* ---------------------------- u32 arithmetic --------------------------- *)

MaxInt == 2147483647
MinInt == (0 - MaxInt) - 1
Pow30 == 1073741824

\* a > b on u32 values in residue form.
UGt(a, b) == IF (a < 0) = (b < 0) THEN a > b ELSE a < 0

\* x << 1 on 32 bits.
Dbl(x) ==
    LET y == IF x >= Pow30 THEN (x - Pow30) - Pow30
             ELSE IF x < 0 - Pow30 THEN (x + Pow30) + Pow30
             ELSE x
    IN  2 * y

RECURSIVE Shl(_, _)
\* x << n on 32 bits, 0 <= n < 32.
Shl(x, n) == IF n = 0 THEN x ELSE Shl(Dbl(x), n - 1)

\* x - 1 on 32 bits.
Dec(x) == IF x = MinInt THEN MaxInt ELSE x - 1

RECURSIVE BitOr(_, _)
\* a | b on two's-complement values.
BitOr(a, b) ==
    IF a = 0 THEN b
    ELSE IF b = 0 THEN a
    ELSE IF a = -1 \/ b = -1 THEN -1
    ELSE LET la == a % 2
             lb == b % 2
         IN  (IF la = 1 \/ lb = 1 THEN 1 ELSE 0)
               + 2 * BitOr((a - la) \div 2, (b - lb) \div 2)

\* address & ~3 and address - (address & ~3).
AlignedBase(address) == address - (address % 4)
Offset(address) == address - AlignedBase(address)

(* ------------------------------- state --------------------------------- *)

VARIABLES
    manager,          \* static WatchpointManager manager
    hw,               \* the four register pairs, by regId: <<control, value>>
    ctx,              \* per session: debug handle, watchpoints[2], nbWatchpoints
    lockCount,        \* acquisition count of watchpointManagerLock
    lockInitialized,  \* the static flag of GDB_ResetWatchpoints
    oob,              \* a store went outside ctx->watchpoints[2]
    ret,              \* what the last call returned
    calls,            \* number of calls made so far
    lockOwner,        \* the thread that holds watchpointManagerLock, 0: none
    pc,               \* per thread: where it stands in the call it is making
    local             \* per thread: the arguments and locals of that call

vars == <<manager, hw, ctx, lockCount, lockInitialized, oob, ret, calls,
          lockOwner, pc, local>>

\* The threads that make calls.
Threads == {1, 2}

\* The locals of a thread that is in no call.  entry is the acquisition
\* count the thread held when it entered the call; log lists the calls of
\* svcSetHardwareBreakPoint the call has made so far, each as
\* <<regId, control, value, succeeded>>.
NoLocal ==
    [c |-> 0, address |-> 0, size |-> 0, kind |-> 0, id |-> 0, entry |-> 0,
     log |-> <<>>]

\* A zeroed Watchpoint (memset 0).
ZeroWatchpoint ==
    [address |-> 0, size |-> 0, kind |-> WATCHPOINT_DISABLED, debug |-> 0]

\* A zeroed WatchpointManager.
ZeroManager == [total |-> 0, watchpoints |-> [i \in Slots |-> ZeroWatchpoint]]

\* The (0, 0) encoding that disables a register pair.
DisabledPair == <<0, 0>>

Init ==
    /\ manager = ZeroManager
    /\ hw = [r \in RegIds |-> DisabledPair]
    /\ ctx = [c \in Contexts |->
                [debug |-> c, watchpoints |-> [i \in Slots |-> 0], nbWatchpoints |-> 0]]
    /\ lockCount = 0
    /\ lockInitialized = FALSE
    /\ oob = FALSE
    /\ ret = 0
    /\ calls = 0
    /\ lockOwner = 0
    /\ pc = [t \in Threads |-> "idle"]
    /\ local = [t \in Threads |-> NoLocal]

(* ------------------------------ lookup --------------------------------- *)

RECURSIVE ScanFrom(_, _, _, _)
\* for(id = 0; id < 2 && watchpoints[id].address != address
\*                   && watchpoints[id].debug != ctx->debug; id++);
ScanFrom(m, debug, address, id) ==
    IF id < NbSlots
       /\ m.watchpoints[id].address # address
       /\ m.watchpoints[id].debug # debug
    THEN ScanFrom(m, debug, address, id + 1)
    ELSE id

FindSlot(m, debug, address) == ScanFrom(m, debug, address, 0)

\* GDB_GetWatchpointKind on manager state m.
GetWatchpointKind(m, debug, address) ==
    LET id == FindSlot(m, debug, address)
    IN  IF id = NbSlots THEN WATCHPOINT_DISABLED ELSE m.watchpoints[id].kind


(* --------------------------- hardware encoding ------------------------- *)

\* The values 1 << size can take: defined for size < 32; for a larger shift
\* count the result is undefined, and the builds give 0 (the count is taken
\* as is) or 1 << (size % 32) (the count is taken modulo the width).
ShiftOne(size) ==
    IF 0 <= size /\ size < 32
    THEN {Shl(1, size)}
    ELSE {0, Shl(1, size % 32)}

\* selectMask = ((1 << size) - 1) << offset, given one = 1 << size.
SelectMask(one, offset) == Shl(Dec(one), offset)

\* BCR: compare with context ID, linked, byte address select 0xf,
\* privileged or user mode, enabled.
BCR ==
    BitOr(Shl(1, 21), BitOr(Shl(1, 20), BitOr(Shl(15, 5), BitOr(Shl(3, 1), 1))))

\* WCR: linked, ID of the linked BRP, byte address select, kind,
\* user mode only, enabled.
WCR(id, selectMask, kind) ==
    BitOr(Shl(1, 20),
      BitOr(Shl(BRP_BASE + id, 16),
        BitOr(Shl(selectMask, 5),
          BitOr(Shl(kind, 3), BitOr(Shl(2, 1), 1)))))

\* The register ids of slot id: 0x100 | id and 4 + id.
WrpOf(id) == WRP_FLAG + id
BrpOf(id) == BRP_BASE + id

\* svcSetHardwareBreakPoint(regId, control, value) on registers h; ok tells
\* whether the call succeeds (a failed call leaves the pair as it was).
SetHardwareBreakPoint(h, regId, control, value, ok) ==
    IF ok THEN [h EXCEPT ![regId] = <<control, value>>] ELSE h

(* ----------------------------- counters -------------------------------- *)

\* The values of a u32 counter the model follows: all but those more than
\* MaxUnder below 2^32.
Followed(x) == (0 - MaxUnder) <= x

\* A call is made once GDB_ResetWatchpoints has set the manager up, and as
\* long as no store has gone outside ctx->watchpoints[2]: from there on the
\* behaviour is undefined and is not followed.
Callable == lockInitialized /\ ~oob

\* One more call, within the number of calls followed.
Call == calls < MaxCalls /\ calls' = calls + 1

(* ------------------------ GDB_ResetWatchpoints ------------------------- *)

\* The reset with the second watchpoint pair left as it is.
GDB_ResetWatchpointsThreePairs ==
    /\ ~oob
    /\ Call
    /\ lockInitialized' = TRUE
    /\ lockCount' = IF lockInitialized THEN lockCount ELSE 0
    /\ hw' = LET h1 == SetHardwareBreakPoint(hw, BRP_BASE, 0, 0, TRUE)
                 h2 == SetHardwareBreakPoint(h1, WRP_FLAG, 0, 0, TRUE)
             IN  SetHardwareBreakPoint(h2, BRP_BASE + 1, 0, 0, TRUE)
    /\ manager' = ZeroManager
    /\ UNCHANGED <<ctx, oob, ret>>

GDB_ResetWatchpoints ==
    /\ ~oob
    /\ Call
    /\ lockInitialized' = TRUE
    \* RecursiveLock_Init zeroes the count; Lock and Unlock then balance.
    /\ lockCount' = IF lockInitialized THEN lockCount ELSE 0
    /\ hw' = LET h1 == SetHardwareBreakPoint(hw, BRP_BASE, 0, 0, TRUE)
                 h2 == SetHardwareBreakPoint(h1, WRP_FLAG, 0, 0, TRUE)
                 h3 == SetHardwareBreakPoint(h2, BRP_BASE + 1, 0, 0, TRUE)
             IN  SetHardwareBreakPoint(h3, WRP_FLAG + 1, 0, 0, TRUE)
    /\ manager' = ZeroManager
    /\ UNCHANGED <<ctx, oob, ret>>

(* -------------------------- GDB_AddWatchpoint -------------------------- *)

\* The checks taken in the order arguments, lookup, capacity.
AddEarlyReturnArgsFirst(m, debug, address, size, kind) ==
    IF size = 0 \/ UGt(Offset(address) + size, 4) \/ kind = WATCHPOINT_DISABLED
    THEN 0 - EINVAL
    ELSE IF GetWatchpointKind(m, debug, address) # WATCHPOINT_DISABLED
         THEN 0 - EINVAL
    ELSE IF m.total = 2 THEN 0 - EBUSY
    ELSE 0

\* The checks of GDB_AddWatchpoint before a slot is chosen: the value
\* returned early, or 0 when the call goes on to program the hardware.
AddEarlyReturn(m, debug, address, size, kind) ==
    IF m.total = 2 THEN 0 - EBUSY
    ELSE IF size = 0 \/ UGt(Offset(address) + size, 4) \/ kind = WATCHPOINT_DISABLED
         THEN 0 - EINVAL
    ELSE IF GetWatchpointKind(m, debug, address) # WATCHPOINT_DISABLED
         THEN 0 - EINVAL
    ELSE 0

\* id = manager.watchpoints[0].kind == WATCHPOINT_DISABLED ? 0 : 1
ChooseSlot(m) == IF m.watchpoints[0].kind = WATCHPOINT_DISABLED THEN 0 ELSE 1

\* The commit of a successful add into the manager.
CommitSlot(m, id, debug, address, size, kind) ==
    [total |-> m.total + 1,
     watchpoints |-> [m.watchpoints EXCEPT ![id] =
        [address |-> address, size |-> size, kind |-> kind, debug |-> debug]]]

\* ctx->watchpoints[ctx->nbWatchpoints++] = address; an index outside 0..1
\* stores outside the array and leaves its two entries as they were.
CacheAppend(x, address) ==
    [x EXCEPT !.watchpoints =
                 IF x.nbWatchpoints \in Slots
                 THEN [x.watchpoints EXCEPT ![x.nbWatchpoints] = address]
                 ELSE x.watchpoints,
              !.nbWatchpoints = x.nbWatchpoints + 1]

\* c: the session; outcome: what the register writes do ("ok" when none is
\* attempted).
GDB_AddWatchpoint(c, address, size, kind, outcome) ==
    LET debug == ctx[c].debug
        early == AddEarlyReturn(manager, debug, address, size, kind)
        id == ChooseSlot(manager)
        offset == Offset(address)
    IN
    /\ Callable
    /\ Call
    /\ UNCHANGED lockInitialized
    /\ IF early # 0
       THEN \* returned with the lock still held; no register write is
            \* attempted
            /\ outcome = "ok"
            /\ lockCount < MaxLock
            /\ lockCount' = lockCount + 1
            /\ ret' = early
            /\ UNCHANGED <<manager, hw, ctx, oob>>
       ELSE \E one \in ShiftOne(size) :
            LET wcr == WCR(id, SelectMask(one, offset), kind)
                h1 == SetHardwareBreakPoint(hw, WrpOf(id), wcr, AlignedBase(address),
                                            outcome # "wrpFails")
                h2 == SetHardwareBreakPoint(h1, BrpOf(id), BCR, debug,
                                            outcome = "ok")
            IN
            /\ UNCHANGED lockCount
            /\ IF outcome = "ok"
               THEN /\ ret' = 0
                    /\ manager' = CommitSlot(manager, id, debug, address, size, kind)
                    /\ ctx' = [ctx EXCEPT ![c] = CacheAppend(ctx[c], address)]
                    /\ oob' = (oob \/ ctx[c].nbWatchpoints \notin Slots)
                    /\ hw' = h2
               ELSE \* h2 = h1 here: the breakpoint pair is not written
                    /\ ret' = 0 - EINVAL
                    /\ UNCHANGED <<manager, ctx, oob>>
                    /\ hw' = h2

(* ------------------------- GDB_RemoveWatchpoint ------------------------ *)

\* The removal of address from the session's cache.
CacheRemove(x, address) ==
    IF x.watchpoints[0] = address
    THEN [x EXCEPT !.watchpoints = [i \in Slots |-> IF i = 0 THEN x.watchpoints[1] ELSE 0],
                   !.nbWatchpoints = x.nbWatchpoints - 1]
    ELSE IF x.watchpoints[1] = address
    THEN [x EXCEPT !.watchpoints = [x.watchpoints EXCEPT ![1] = 0],
                   !.nbWatchpoints = x.nbWatchpoints - 1]
    ELSE x

\* Whether GDB_RemoveWatchpoint rejects the request: no slot found, or a
\* kind was asked for and the slot found has another.
RemoveRejects(m, debug, address, kind) ==
    LET id == FindSlot(m, debug, address)
    IN  \/ id = NbSlots
        \/ (kind # WATCHPOINT_DISABLED /\ m.watchpoints[id].kind # kind)

\* memset(&manager.watchpoints[id], 0, ...); manager.total--;
ClearSlot(m, id) ==
    [total |-> m.total - 1,
     watchpoints |-> [m.watchpoints EXCEPT ![id] = ZeroWatchpoint]]

GDB_RemoveWatchpoint(c, address, kind) ==
    LET debug == ctx[c].debug
        id == FindSlot(manager, debug, address)
    IN
    /\ Callable
    /\ Call
    /\ UNCHANGED <<lockCount, lockInitialized, oob>>
    /\ IF RemoveRejects(manager, debug, address, kind)
       THEN /\ ret' = 0 - EINVAL
            /\ UNCHANGED <<manager, hw, ctx>>
       ELSE /\ Followed(manager.total - 1)
            /\ Followed(CacheRemove(ctx[c], address).nbWatchpoints)
            /\ hw' = LET h1 == SetHardwareBreakPoint(hw, BrpOf(id), 0, 0, TRUE)
                     IN  SetHardwareBreakPoint(h1, WrpOf(id), 0, 0, TRUE)
            /\ manager' = ClearSlot(manager, id)
            /\ ctx' = [ctx EXCEPT ![c] = CacheRemove(ctx[c], address)]
            /\ ret' = 0

(* ------------------------ GDB_GetWatchpointKind ------------------------ *)

GDB_GetWatchpointKind(c, address) ==
    /\ Callable
    /\ Call
    /\ ret' = GetWatchpointKind(manager, ctx[c].debug, address)
    /\ UNCHANGED <<manager, hw, ctx, lockCount, lockInitialized, oob>>

(* ------------------------- watchpointManagerLock ----------------------- *)

\* The acquisition count thread t holds.
Held(t) == IF lockOwner = t THEN lockCount ELSE 0

\* RecursiveLock_Init: the lock is set to free, with a count of 0.
RecursiveLock_Init ==
    /\ lockOwner' = 0
    /\ lockCount' = 0

\* RecursiveLock_Lock by thread t: it waits while another thread holds the
\* lock, then takes it or re-enters it.
RecursiveLock_Lock(t) ==
    /\ lockOwner \in {0, t}
    /\ lockOwner' = t
    /\ lockCount' = lockCount + 1

\* RecursiveLock_Unlock: the lock is free again when the count is back to 0.
RecursiveLock_Unlock ==
    /\ lockCount' = lockCount - 1
    /\ lockOwner' = IF lockCount - 1 = 0 THEN 0 ELSE lockOwner

(* ------------------------- the calls, by statement --------------------- *)

\* Thread t goes to label l.
Goto(t, l) == pc' = [pc EXCEPT ![t] = l]

\* Thread t returns r from its call.
Return(t, r) ==
    /\ ret' = r
    /\ pc' = [pc EXCEPT ![t] = "idle"]
    /\ local' = [local EXCEPT ![t] = NoLocal]

\* Thread t enters a call with the given arguments, at label l.
Enter(t, l, c, address, size, kind) ==
    /\ pc[t] = "idle"
    /\ ~oob
    /\ Call
    /\ pc' = [pc EXCEPT ![t] = l]
    /\ local' = [local EXCEPT ![t] =
                    [c |-> c, address |-> address, size |-> size, kind |-> kind,
                     id |-> 0, entry |-> Held(t), log |-> <<>>]]

\* GDB_ResetWatchpoints, lines 58-59: the call and its test of the flag.
ResetCall(t) ==
    /\ Enter(t, IF lockInitialized THEN "reset_lock" ELSE "reset_init", 0, 0, 0, 0)
    /\ UNCHANGED <<manager, hw, ctx, lockCount, lockInitialized, oob, ret, lockOwner>>

\* line 61
ResetInit(t) ==
    /\ pc[t] = "reset_init"
    /\ ~oob
    /\ RecursiveLock_Init
    /\ Goto(t, "reset_flag")
    /\ UNCHANGED <<manager, hw, ctx, lockInitialized, oob, ret, calls, local>>

\* line 62
ResetFlag(t) ==
    /\ pc[t] = "reset_flag"
    /\ ~oob
    /\ lockInitialized' = TRUE
    /\ Goto(t, "reset_lock")
    /\ UNCHANGED <<manager, hw, ctx, lockCount, oob, ret, calls, lockOwner, local>>

\* line 64
ResetLock(t) ==
    /\ pc[t] = "reset_lock"
    /\ ~oob
    /\ RecursiveLock_Lock(t)
    /\ Goto(t, "reset_body")
    /\ UNCHANGED <<manager, hw, ctx, lockInitialized, oob, ret, calls, local>>

\* lines 66-75
ResetBody(t) ==
    /\ pc[t] = "reset_body"
    /\ ~oob
    /\ hw' = LET h1 == SetHardwareBreakPoint(hw, BRP_BASE, 0, 0, TRUE)
                 h2 == SetHardwareBreakPoint(h1, WRP_FLAG, 0, 0, TRUE)
                 h3 == SetHardwareBreakPoint(h2, BRP_BASE + 1, 0, 0, TRUE)
             IN  SetHardwareBreakPoint(h3, WRP_FLAG + 1, 0, 0, TRUE)
    /\ manager' = ZeroManager
    /\ RecursiveLock_Unlock
    /\ Return(t, ret)
    /\ UNCHANGED <<ctx, lockInitialized, oob, calls>>

\* GDB_AddWatchpoint: the call.
AddCall(t, c, address, size, kind) ==
    /\ lockInitialized
    /\ Enter(t, "add_lock", c, address, size, kind)
    /\ UNCHANGED <<manager, hw, ctx, lockCount, lockInitialized, oob, ret, lockOwner>>

\* line 79
AddLock(t) ==
    /\ pc[t] = "add_lock"
    /\ ~oob
    /\ RecursiveLock_Lock(t)
    /\ Goto(t, "add_check")
    /\ UNCHANGED <<manager, hw, ctx, lockInitialized, oob, ret, calls, local>>

\* lines 81-93: the checks, each returning without an unlock, then the
\* choice of the slot.
AddCheck(t) ==
    LET l == local[t]
        early == AddEarlyReturn(manager, ctx[l.c].debug, l.address, l.size, l.kind)
    IN
    /\ pc[t] = "add_check"
    /\ ~oob
    /\ IF early # 0
       THEN Return(t, early)
       ELSE /\ pc' = [pc EXCEPT ![t] = "add_wrp"]
            /\ local' = [local EXCEPT ![t].id = ChooseSlot(manager)]
            /\ UNCHANGED ret
    /\ UNCHANGED <<manager, hw, ctx, lockCount, lockInitialized, oob, calls, lockOwner>>

\* The write of the watchpoint pair with its result not tested: the call
\* goes on to the breakpoint pair also when the write has failed.
AddWrpResultIgnored(t, ok) ==
    LET l == local[t]
    IN
    /\ pc[t] = "add_wrp"
    /\ ~oob
    /\ \E one \in ShiftOne(l.size) :
          LET wcr == WCR(l.id, SelectMask(one, Offset(l.address)), l.kind)
          IN  /\ hw' = SetHardwareBreakPoint(hw, WrpOf(l.id), wcr,
                                             AlignedBase(l.address), ok)
              /\ local' = [local EXCEPT ![t].log =
                              Append(@, <<WrpOf(l.id), wcr, AlignedBase(l.address), ok>>)]
    /\ Goto(t, "add_brp")
    /\ UNCHANGED <<manager, ctx, lockCount, lockInitialized, oob, ret, calls,
                   lockOwner>>

\* lines 94-109: the write of the watchpoint pair; ok: the write succeeds.
AddWrp(t, ok) ==
    LET l == local[t]
    IN
    /\ pc[t] = "add_wrp"
    /\ ~oob
    /\ \E one \in ShiftOne(l.size) :
          LET wcr == WCR(l.id, SelectMask(one, Offset(l.address)), l.kind)
          IN  /\ hw' = SetHardwareBreakPoint(hw, WrpOf(l.id), wcr,
                                             AlignedBase(l.address), ok)
              /\ local' = [local EXCEPT ![t].log =
                              Append(@, <<WrpOf(l.id), wcr, AlignedBase(l.address), ok>>)]
    /\ Goto(t, IF ok THEN "add_brp" ELSE "add_fail")
    /\ UNCHANGED <<manager, ctx, lockCount, lockInitialized, oob, ret, calls,
                   lockOwner>>

\* lines 111-112: the write of the breakpoint pair.
AddBrp(t, ok) ==
    LET l == local[t]
    IN
    /\ pc[t] = "add_brp"
    /\ ~oob
    /\ hw' = SetHardwareBreakPoint(hw, BrpOf(l.id), BCR, ctx[l.c].debug, ok)
    /\ local' = [local EXCEPT ![t].log =
                    Append(@, <<BrpOf(l.id), BCR, ctx[l.c].debug, ok>>)]
    /\ Goto(t, IF ok THEN "add_commit" ELSE "add_fail")
    /\ UNCHANGED <<manager, ctx, lockCount, lockInitialized, oob, ret, calls,
                   lockOwner>>

\* lines 116-119: total, address and size are stored.
AddCommit(t) ==
    LET l == local[t]
        w == manager.watchpoints[l.id]
    IN
    /\ pc[t] = "add_commit"
    /\ ~oob
    /\ manager' = CommitSlot(manager, l.id, w.debug, l.address, l.size, w.kind)
    /\ Goto(t, "add_store")
    /\ UNCHANGED <<hw, ctx, lockCount, lockInitialized, oob, ret, calls,
                   lockOwner, local>>

\* lines 120-124: kind and owner are stored, the address is appended to the
\* session's cache, the lock is released.
AddStore(t) ==
    LET l == local[t]
        w == manager.watchpoints[l.id]
    IN
    /\ pc[t] = "add_store"
    /\ ~oob
    /\ manager' = [manager EXCEPT !.watchpoints[l.id] =
                      [w EXCEPT !.kind = l.kind, !.debug = ctx[l.c].debug]]
    /\ ctx' = [ctx EXCEPT ![l.c] = CacheAppend(ctx[l.c], l.address)]
    /\ oob' = (oob \/ ctx[l.c].nbWatchpoints \notin Slots)
    /\ RecursiveLock_Unlock
    /\ Return(t, 0)
    /\ UNCHANGED <<hw, lockInitialized, calls>>

\* lines 128-129
AddFail(t) ==
    /\ pc[t] = "add_fail"
    /\ ~oob
    /\ RecursiveLock_Unlock
    /\ Return(t, 0 - EINVAL)
    /\ UNCHANGED <<manager, hw, ctx, lockInitialized, oob, calls>>

\* GDB_RemoveWatchpoint: the call.
RemoveCall(t, c, address, kind) ==
    /\ lockInitialized
    /\ Enter(t, "remove_lock", c, address, 0, kind)
    /\ UNCHANGED <<manager, hw, ctx, lockCount, lockInitialized, oob, ret, lockOwner>>

\* line 135
RemoveLock(t) ==
    /\ pc[t] = "remove_lock"
    /\ ~oob
    /\ RecursiveLock_Lock(t)
    /\ Goto(t, "remove_body")
    /\ UNCHANGED <<manager, hw, ctx, lockInitialized, oob, ret, calls, local>>

\* lines 137-168
RemoveBody(t) ==
    LET l == local[t]
        debug == ctx[l.c].debug
        id == FindSlot(manager, debug, l.address)
    IN
    /\ pc[t] = "remove_body"
    /\ ~oob
    /\ IF RemoveRejects(manager, debug, l.address, l.kind)
       THEN /\ Return(t, 0 - EINVAL)
            /\ UNCHANGED <<manager, hw, ctx>>
       ELSE /\ hw' = LET h1 == SetHardwareBreakPoint(hw, BrpOf(id), 0, 0, TRUE)
                     IN  SetHardwareBreakPoint(h1, WrpOf(id), 0, 0, TRUE)
            /\ manager' = ClearSlot(manager, id)
            /\ ctx' = [ctx EXCEPT ![l.c] = CacheRemove(ctx[l.c], l.address)]
            /\ Return(t, 0)
    /\ RecursiveLock_Unlock
    /\ UNCHANGED <<lockInitialized, oob, calls>>

\* GDB_GetWatchpointKind called by thread t: the scan, made without the
\* lock.
GetKindScan(t, c, address) ==
    /\ lockInitialized
    /\ pc[t] = "idle"
    /\ ~oob
    /\ Call
    /\ ret' = GetWatchpointKind(manager, ctx[c].debug, address)
    /\ UNCHANGED <<manager, hw, ctx, lockCount, lockInitialized, oob, lockOwner,
                   pc, local>>

(* --------------------------- specification ----------------------------- *)

\* The calls are made one after the other by one thread, for any of the
\* sessions: the lock is recursive, so an acquisition left behind by an
\* earlier call does not block the next one.
\* That thread is thread 1: it holds the lock whenever the count is not 0,
\* and is in no call between two calls.
OneThread ==
    /\ lockOwner' = IF lockCount' = 0 THEN 0 ELSE 1
    /\ UNCHANGED <<pc, local>>

\* The calls made by sessions cs at addresses as, with sizes ss.
Reset == GDB_ResetWatchpoints /\ OneThread

Add(cs, as, ss) ==
    \E c \in cs, address \in as, size \in ss, kind \in Kinds, outcome \in HwOutcomes :
       GDB_AddWatchpoint(c, address, size, kind, outcome) /\ OneThread

Remove(cs, as) ==
    \E c \in cs, address \in as, kind \in Kinds :
       GDB_RemoveWatchpoint(c, address, kind) /\ OneThread

GetKind(cs, as) ==
    \E c \in cs, address \in as : GDB_GetWatchpointKind(c, address) /\ OneThread

Next ==
    \/ Reset
    \/ Add(Callers, Addresses, Sizes)
    \/ Remove(Callers, Addresses)
    \/ GetKind(Callers, Addresses)

Spec == Init /\ [][Next]_vars

\* The same calls at two addresses only: 0 and the one at offset 3.
TwoAddresses == {0, 7}

NextTwo ==
    \/ Reset
    \/ Add(Callers, TwoAddresses, Sizes)
    \/ Remove(Callers, TwoAddresses)
    \/ GetKind(Callers, TwoAddresses)

SpecTwo == Init /\ [][NextTwo]_vars

\* The same calls with sizes close to 2^32: 0xFFFFFFFF and 0xFFFFFFFE.
WrapSizes == {1, 0 - 1, 0 - 2}

NextWrap ==
    \/ Reset
    \/ Add(Callers, TwoAddresses, WrapSizes)
    \/ Remove(Callers, TwoAddresses)
    \/ GetKind(Callers, TwoAddresses)

SpecWrap == Init /\ [][NextWrap]_vars

\* The calls of three sessions, with the one size 1.
OneSize == {1}

NextThree ==
    \/ Reset
    \/ Add(Contexts, Addresses, OneSize)
    \/ Remove(Contexts, Addresses)
    \/ GetKind(Contexts, Addresses)

SpecThree == Init /\ [][NextThree]_vars

\* The calls made by two threads, statement by statement, for the sessions
\* of Callers: at one address, with a size of 0 (rejected) or 1.
ThreadAddresses == {4}
ThreadSizes == {0, 1}
ThreadKinds == {WATCHPOINT_WRITE}

\* A thread enters a call.
ThreadCall(t) ==
    \/ ResetCall(t)
    \/ \E c \in Callers, address \in ThreadAddresses, size \in ThreadSizes,
          kind \in ThreadKinds : AddCall(t, c, address, size, kind)
    \/ \E c \in Callers, address \in ThreadAddresses, kind \in ThreadKinds :
          RemoveCall(t, c, address, kind)
    \/ \E c \in Callers, address \in ThreadAddresses : GetKindScan(t, c, address)

\* A thread executes the next statement of the call it is in.
ThreadStep(t) ==
    \/ ResetInit(t)
    \/ ResetFlag(t)
    \/ ResetLock(t)
    \/ ResetBody(t)
    \/ AddLock(t)
    \/ AddCheck(t)
    \/ \E ok \in BOOLEAN : AddWrp(t, ok)
    \/ \E ok \in BOOLEAN : AddBrp(t, ok)
    \/ AddCommit(t)
    \/ AddStore(t)
    \/ AddFail(t)
    \/ RemoveLock(t)
    \/ RemoveBody(t)

NextThreads == \E t \in Threads : ThreadCall(t) \/ ThreadStep(t)

SpecThreads == Init /\ [][NextThreads]_vars

\* The scheduler is fair: a thread that can execute its next statement
\* eventually does.
SpecFair == SpecThreads /\ \A t \in Threads : WF_vars(ThreadStep(t))

(* ------------------------- state descriptions ------------------------- *)

Occupied(id) == manager.watchpoints[id].kind # WATCHPOINT_DISABLED
OccupiedSlots == {id \in Slots : Occupied(id)}

\* The occupied slots whose owner is session c's handle.
OwnedBy(c) == {id \in OccupiedSlots : manager.watchpoints[id].debug = ctx[c].debug}

\* Some occupied slot stores address.
Stored(address) == \E id \in OccupiedSlots : manager.watchpoints[id].address = address

\* Bit 0 of a pair's control word: the pair is enabled.
PairEnabled(pair) == pair[1] % 2 = 1

(* ------------------------------- claims -------------------------------- *)

\* C1: in every reachable state total equals the number of slots whose kind
\* is not Disabled, and total is 0, 1 or 2.
C1_TotalCountsOccupied ==
    ~oob =>
       /\ manager.total = Cardinality(OccupiedSlots)
       /\ manager.total \in 0 .. NbSlots

\* C2: between calls, for each slot id the watchpoint pair 0x100|id and the
\* breakpoint pair 4+id are enabled if and only if slot id is occupied.
C2_HardwareAgreesWithSlots ==
    ~oob =>
       \A id \in Slots :
          /\ PairEnabled(hw[WrpOf(id)]) <=> Occupied(id)
          /\ PairEnabled(hw[BrpOf(id)]) <=> Occupied(id)

\* C3: each session's live count equals the number of occupied slots it
\* owns, and its first count cache entries are the addresses of those slots.
C3_CacheAgreesWithSlots ==
    ~oob =>
       \A c \in Contexts :
          /\ ctx[c].nbWatchpoints = Cardinality(OwnedBy(c))
          /\ {ctx[c].watchpoints[j] : j \in 0 .. (ctx[c].nbWatchpoints - 1)}
                = {manager.watchpoints[id].address : id \in OwnedBy(c)}

\* A request Add accepts by the stated rules: a kind other than Disabled,
\* a size of 1 .. 4 and a region inside one aligned word.
ValidRequest(address, size, kind) ==
    /\ kind # WATCHPOINT_DISABLED
    /\ 0 < size
    /\ Offset(address) + size <= 4

\* C4: when session c owns exactly one occupied slot, the other slot is free
\* and c adds a valid request at an address no occupied slot stores, the
\* register writes succeeding, Add returns 0 and c then owns both slots.
C4_SecondWatchpointAccepted ==
    [][\A c \in Callers, address \in Addresses, size \in Sizes, kind \in Kinds :
          ( /\ Cardinality(OwnedBy(c)) = 1
            /\ Cardinality(OccupiedSlots) = 1
            /\ ~Stored(address)
            /\ ValidRequest(address, size, kind)
            /\ GDB_AddWatchpoint(c, address, size, kind, "ok") )
          => ( /\ ret' = 0
               /\ \A id \in Slots :
                     /\ manager'.watchpoints[id].kind # WATCHPOINT_DISABLED
                     /\ manager'.watchpoints[id].debug = ctx[c].debug )]_vars

\* C5: no two occupied slots store the same address.
C5_NoSharedAddress ==
    ~oob =>
       \A i \in OccupiedSlots, j \in OccupiedSlots :
          i # j => manager.watchpoints[i].address # manager.watchpoints[j].address

\* C6: while an occupied slot stores address A with owner s and kind K,
\* GetKind(s, A) returns K.
C6_GetKindReturnsAddedKind ==
    [][\A c \in Callers, address \in Addresses :
          GDB_GetWatchpointKind(c, address)
          => \A id \in OwnedBy(c) :
                manager.watchpoints[id].address = address
                => ret' = manager.watchpoints[id].kind]_vars

\* C7: Remove(c, A, Disabled) for an address A that no occupied slot stores
\* returns -EINVAL and leaves the slot table, total, the registers and the
\* session caches unchanged.
C7_RemoveOfAbsentAddressRejected ==
    [][\A c \in Callers, address \in Addresses :
          (~Stored(address) /\ GDB_RemoveWatchpoint(c, address, WATCHPOINT_DISABLED))
          => (ret' = 0 - EINVAL /\ UNCHANGED <<manager, hw, ctx>>)]_vars

\* C8: when session c owns an occupied slot storing A with kind K,
\* Remove(c, A, K2) with K2 neither Disabled nor K returns -EINVAL and
\* leaves every slot, total and the session caches unchanged.
C8_RemoveKindMismatchRejected ==
    [][\A c \in Callers, address \in Addresses, kind \in Kinds :
          ( /\ kind # WATCHPOINT_DISABLED
            /\ \E id \in OwnedBy(c) :
                  /\ manager.watchpoints[id].address = address
                  /\ manager.watchpoints[id].kind # kind
            /\ GDB_RemoveWatchpoint(c, address, kind) )
          => (ret' = 0 - EINVAL /\ UNCHANGED <<manager, ctx>>)]_vars

\* C9 as stated: an Add whose kind is Disabled, whose size is 0, whose
\* offset + size exceeds 4 or whose lookup is not Disabled returns -EINVAL
\* even when both slots are occupied; -EBUSY is returned only for a request
\* that passes those checks while both slots are occupied.
C9_ChecksInStatedOrder ==
    [][\A c \in Callers, address \in Addresses, size \in Sizes, kind \in Kinds :
          GDB_AddWatchpoint(c, address, size, kind, "ok")
          => LET invalid ==
                    \/ kind = WATCHPOINT_DISABLED
                    \/ size = 0
                    \/ UGt(Offset(address) + size, 4)
                    \/ GetWatchpointKind(manager, ctx[c].debug, address)
                          # WATCHPOINT_DISABLED
             IN  /\ invalid => ret' = 0 - EINVAL
                 /\ ret' = 0 - EBUSY => (~invalid /\ OccupiedSlots = Slots)]_vars

\* C9 as amended: the capacity check comes first.  In every state, an Add
\* made while total is 2 returns -EBUSY whatever its arguments; an Add made
\* while total is not 2 whose kind is Disabled, whose size is 0, whose 32-bit
\* offset + size exceeds 4 or whose lookup is not Disabled returns -EINVAL;
\* and -EBUSY is returned only while both slots are occupied.
C9_CapacityCheckedFirst ==
    ~oob =>
       \A c \in Callers, address \in Addresses, size \in Sizes, kind \in Kinds :
          LET early == AddEarlyReturn(manager, ctx[c].debug, address, size, kind)
              invalid ==
                 \/ kind = WATCHPOINT_DISABLED
                 \/ size = 0
                 \/ UGt(Offset(address) + size, 4)
                 \/ GetWatchpointKind(manager, ctx[c].debug, address)
                       # WATCHPOINT_DISABLED
          IN  /\ manager.total = 2 => early = 0 - EBUSY
              /\ (manager.total # 2 /\ invalid) => early = 0 - EINVAL
              /\ early = 0 - EBUSY => (manager.total = 2 /\ OccupiedSlots = Slots)

\* An Add has returned -EBUSY from a full table, leaving the lock held.
C9_Witness ==
    /\ ret = 0 - EBUSY
    /\ manager.total = 2
    /\ OccupiedSlots = Slots
    /\ lockCount > 0

\* C10: in every state in which both slots are occupied, total is 2 and an
\* Add by any session at any address returns -EBUSY.
C10_AddOnFullTableIsBusy ==
    (~oob /\ OccupiedSlots = Slots) =>
       /\ manager.total = 2
       /\ \A c \in Callers, address \in Addresses, size \in Sizes, kind \in Kinds :
             AddEarlyReturn(manager, ctx[c].debug, address, size, kind) = 0 - EBUSY

\* Thread t is between its lock acquisition and its lock release in an Add,
\* a Remove or a Reset.
InCritical(t) ==
    pc[t] \in {"reset_body", "add_check", "add_wrp", "add_brp", "add_commit",
               "add_store", "add_fail", "remove_body"}

\* Thread t returns from a call in this step.
Returns(t) == pc[t] # "idle" /\ pc'[t] = "idle"

\* C11: under fair scheduling every call a thread has entered eventually
\* returns, and at each return the acquisition count the calling thread holds
\* is back to its value at entry.
C11_EveryCallReturns ==
    /\ \A t \in Threads : (pc[t] # "idle") ~> (pc[t] = "idle" \/ oob)
    /\ [][\A t \in Threads : Returns(t) => Held(t)' = local[t].entry]_vars

\* C12: at most one thread at a time is between its lock acquisition and its
\* lock release in an Add, a Remove or a Reset.
C12_MutualExclusion ==
    \A t \in Threads, u \in Threads : (InCritical(t) /\ InCritical(u)) => t = u

\* C13: GetKind never scans the slot table while an Add, a Remove or a Reset
\* of another thread is between its lock acquisition and its lock release.
C13_GetKindUnderLock ==
    [][\A t \in Threads, c \in Callers, address \in ThreadAddresses :
          GetKindScan(t, c, address) => \A u \in Threads \ {t} : ~InCritical(u)]_vars

\* 0 < size and (address & 3) + size <= 4 as numbers: a size of 2^31 or
\* more is a negative residue, and is too large.
FitsWord(address, size) ==
    /\ size # 0
    /\ 0 <= size
    /\ Offset(address) + size <= 4

\* C14: every occupied slot has 0 < size and (address & 3) + size <= 4, the
\* sum taken without wrapping.
C14_RegionFitsWord ==
    ~oob =>
       \A id \in OccupiedSlots :
          FitsWord(manager.watchpoints[id].address, manager.watchpoints[id].size)

\* C15: a successful Add writes its watchpoint into the lowest-indexed free
\* slot and leaves the other slot unchanged; and a slot changes only from
\* free to occupied, by a successful Add, or from occupied to free.
C15_AddTargetsFreeSlot ==
    [][/\ \A c \in Contexts, address \in Addresses, size \in Sizes, kind \in Kinds :
             (GDB_AddWatchpoint(c, address, size, kind, "ok") /\ ret' = 0)
             => LET id == ChooseSlot(manager)
                IN  /\ ~Occupied(id)
                    /\ \A j \in Slots : j < id => Occupied(j)
                    /\ manager'.watchpoints[id].kind = kind
                    /\ manager'.watchpoints[1 - id] = manager.watchpoints[1 - id]
       /\ \A id \in Slots :
             manager'.watchpoints[id] # manager.watchpoints[id]
             => \/ ~Occupied(id) /\ Occupied(id)' /\ ret' = 0
                \/ Occupied(id) /\ ~Occupied(id)']_vars

\* C16: in every state in which Add(c, A, 1, Write) succeeds, the Remove(c,
\* A, Write) that follows it succeeds and gives back total, both slots, the
\* register pairs of the slot the Add used, and the live count and live
\* cache entries of session c, as they were before the Add.
C16_AddRemoveRoundTrip ==
    ~oob =>
       \A c \in Callers, address \in Addresses :
          LET debug == ctx[c].debug
              id == ChooseSlot(manager)
              \* after the Add
              m1 == CommitSlot(manager, id, debug, address, 1, WATCHPOINT_WRITE)
              x1 == CacheAppend(ctx[c], address)
              h1 == SetHardwareBreakPoint(
                       SetHardwareBreakPoint(hw, WrpOf(id),
                          WCR(id, SelectMask(Shl(1, 1), Offset(address)), WATCHPOINT_WRITE),
                          AlignedBase(address), TRUE),
                       BrpOf(id), BCR, debug, TRUE)
              \* after the Remove
              id2 == FindSlot(m1, debug, address)
              h2 == SetHardwareBreakPoint(
                       SetHardwareBreakPoint(h1, BrpOf(id2), 0, 0, TRUE),
                       WrpOf(id2), 0, 0, TRUE)
          IN  ( /\ AddEarlyReturn(manager, debug, address, 1, WATCHPOINT_WRITE) = 0
                /\ ctx[c].nbWatchpoints \in Slots )
              => /\ ~RemoveRejects(m1, debug, address, WATCHPOINT_WRITE)
                 /\ ClearSlot(m1, id2) = manager
                 /\ LET x2 == CacheRemove(x1, address)
                    IN  /\ x2.nbWatchpoints = ctx[c].nbWatchpoints
                        /\ \A j \in Slots : j < x2.nbWatchpoints
                              => x2.watchpoints[j] = ctx[c].watchpoints[j]
                 /\ h2[WrpOf(id)] = hw[WrpOf(id)]
                 /\ h2[BrpOf(id)] = hw[BrpOf(id)]

\* The state a Reset leaves: the four pairs disabled, the table zeroed.
ResetState ==
    /\ \A r \in RegIds : hw[r] = DisabledPair
    /\ manager.total = 0
    /\ \A id \in Slots : manager.watchpoints[id] = ZeroWatchpoint

\* C17: Reset leaves the four register pairs at (0, 0), both slots zeroed
\* and total 0, with the lock's count as it was at entry; and a Reset made in
\* the state a Reset has left changes nothing.
C17_ResetZeroesAndIsIdempotent ==
    [][GDB_ResetWatchpoints
       => /\ ResetState'
          /\ lockCount' = lockCount
          /\ (lockInitialized /\ ResetState)
                => UNCHANGED <<manager, hw, ctx, lockCount, lockInitialized, oob>>]_vars

\* The fourth call was a Reset of a table with both slots occupied: two Adds
\* have each left a live entry in a session's cache, and the table is zeroed.
C17_Witness ==
    /\ calls = 4
    /\ ResetState
    /\ \A c \in Callers : ctx[c].nbWatchpoints = 1

\* C18: a successful Remove(c, A, k) frees exactly one slot, an occupied one
\* that stored A and was owned by session c, and leaves the other slot alone.
C18_RemoveScopedToSession ==
    [][\A c \in Callers, address \in Addresses, kind \in Kinds :
          (GDB_RemoveWatchpoint(c, address, kind) /\ ret' = 0)
          => \E id \in Slots :
                /\ Occupied(id)
                /\ manager.watchpoints[id].address = address
                /\ manager.watchpoints[id].debug = ctx[c].debug
                /\ manager'.watchpoints[id] = ZeroWatchpoint
                /\ manager'.watchpoints[1 - id] = manager.watchpoints[1 - id]]_vars

\* C19: the live count of every session is 0, 1 or 2, and no Add has stored
\* outside the session's two cache entries.
C19_LiveCountInRange ==
    /\ ~oob
    /\ \A c \in Contexts : ctx[c].nbWatchpoints \in 0 .. NbSlots

\* Thread t is inside GDB_AddWatchpoint.
InAdd(t) ==
    pc[t] \in {"add_lock", "add_check", "add_wrp", "add_brp", "add_commit",
               "add_store", "add_fail"}

\* The two register writes of thread t's Add, both succeeded: the watchpoint
\* pair of slot id with the control word and address & ~3, then the
\* breakpoint pair with its control word and the session's handle.
BothWritten(t) ==
    LET l == local[t]
    IN  l.log = << <<WrpOf(l.id),
                     WCR(l.id, SelectMask(Shl(1, l.size), Offset(l.address)), l.kind),
                     AlignedBase(l.address), TRUE>>,
                   <<BrpOf(l.id), BCR, ctx[l.c].debug, TRUE>> >>

\* C20: in every step of an Add, a write of the breakpoint pair comes second,
\* after a write of the watchpoint pair of the same slot that has succeeded;
\* and the slot table, total and the session caches change only once both
\* writes have been made and have succeeded.
C20_HardwareWrittenInOrder ==
    [][\A t \in Threads :
          (InAdd(t) /\ pc'[t] # pc[t])
          => LET l == local[t]
             IN  /\ (local'[t] # NoLocal /\ local'[t].log # l.log)
                       => \/ /\ l.log = <<>>
                             /\ Len(local'[t].log) = 1
                             /\ local'[t].log[1][1] = WrpOf(local'[t].id)
                             /\ local'[t].log[1][3] = AlignedBase(l.address)
                          \/ /\ Len(l.log) = 1
                             /\ l.log[1][1] = WrpOf(l.id)
                             /\ l.log[1][4]
                             /\ local'[t].log = Append(l.log, local'[t].log[2])
                             /\ local'[t].log[2][1] = BrpOf(l.id)
                             /\ local'[t].log[2][3] = ctx[l.c].debug
                 /\ (manager' # manager \/ ctx' # ctx) => BothWritten(t)]_vars

\* An Add is storing its watchpoint: total, address and size are written,
\* kind and owner not yet, after both register writes.
C20_Witness ==
    \E t \in Threads :
       /\ pc[t] = "add_store"
       /\ BothWritten(t)
       /\ manager.watchpoints[local[t].id].address = local[t].address
       /\ manager.watchpoints[local[t].id].kind = WATCHPOINT_DISABLED
       /\ PairEnabled(hw[WrpOf(local[t].id)])

=============================================================================
